---- MODULE Spec2Model ----
(***************************************************************************)
(* Model of the offline cache controller public/sw.js (service worker) of  *)
(* clinic-cam-vault: install / activate / message / fetch listeners, the   *)
(* cacheFirst and networkFirst strategies and isCacheableResponse, run     *)
(* against a CacheStorage (named, ordered cache generations holding        *)
(* request -> response entries) and an unreliable network.                 *)
(***************************************************************************)
EXTENDS Naturals, Integers, Sequences, FiniteSets, TLC

(* ----------------------------- bounds ---------------------------------- *)
MaxFetch   == 2      \* fetch events delivered in one behaviour
MaxHandles == 4      \* Cache objects alive at once

Slots    == 1..MaxFetch    \* the i-th fetch event is recorded in slot i
Handles  == 1..MaxHandles

\* sw.js:2  CACHE_VERSION = 'v4'; the version tag is bumped by hand on a release
CACHE_VERSION == 4
\* the releases deployed in turn: the source's and the one that supersedes it
Versions == {CACHE_VERSION, CACHE_VERSION + 1}
\* a release older than every modelled controller
LegacyVersion == CACHE_VERSION - 1
\* the bodies the server sends for a URL: before and after a content change
Bodies == {"old", "new"}

(* --------------------------- cache names ------------------------------- *)
\* sw.js:3  STATIC_CACHE = `static-${CACHE_VERSION}`
STATIC_CACHE(v) == <<"static", v>>
\* sw.js:4  RUNTIME_CACHE = `runtime-${CACHE_VERSION}`
RUNTIME_CACHE(v) == <<"runtime", v>>
\* a generation left behind by the release before
LegacyCache == STATIC_CACHE(LegacyVersion)
CacheNames == {LegacyCache} \cup {STATIC_CACHE(v) : v \in Versions}
                            \cup {RUNTIME_CACHE(v) : v \in Versions}

(* ------------------------------ URLs ----------------------------------- *)
\* A URL is [scheme, origin, path]; path is the sequence of "/"-separated
\* segments of url.pathname ("/" is <<>>, "/assets/app.js" is <<"assets","app.js">>).
Url(scheme, origin, path) == [scheme |-> scheme, origin |-> origin, path |-> path]
SelfUrl(path) == Url("https", "self", path)

RootPath  == << >>
RootUrl   == SelfUrl(RootPath)
\* sw.js:12-17
PRECACHE_URLS == {RootUrl, SelfUrl(<<"manifest.json">>), SelfUrl(<<"favicon.ico">>)}

SelfPaths == { RootPath, <<"patients">>, <<"manifest.json">>, <<"favicon.ico">>,
               <<"assets", "app.js">>, <<"api", "data">>, <<"video.webm">>,
               <<"sw.js">>, <<"@vite", "client">>, <<"@react-refresh">>,
               <<"src", "main.tsx">> }
Urls == {SelfUrl(p) : p \in SelfPaths}
          \cup {Url("https", "other", <<"video.webm">>)}
          \cup {Url("blob", "self", <<"uuid">>)}

(* ---------------------------- requests --------------------------------- *)
Destinations == {"document", "script", "image", ""}
Request(method, url, range, mode, dest) ==
  [method |-> method, url |-> url, range |-> range, mode |-> mode, dest |-> dest]
\* every request the page can issue: a navigation always has destination
\* "document" and no other request has it
AllRequests ==
  { r \in [method : {"GET", "POST"}, url : Urls, range : BOOLEAN,
           mode : {"navigate", "cors"}, dest : Destinations] :
      (r.mode = "navigate") <=> (r.dest = "document") }

(* ---------------------------- responses -------------------------------- *)
ResponseTypes == {"basic", "cors", "default", "error", "opaque", "opaqueredirect"}
Response(status, type, body) == [status |-> status, type |-> type, body |-> body]
NoRes == Response(0, "error", "")         \* placeholder: no response object
\* sw.js:149  new Response('Offline', { status: 503, ... })
Offline503 == Response(503, "default", "Offline")
\* what the network may answer: status and type vary independently
NetResponses ==
  { Response(200, "basic", b) : b \in Bodies }
    \cup { Response(200, t, "new") : t \in {"default", "opaque"} }
    \cup { Response(404, "basic", "new") }
\* what cache.addAll stores for a manifest path: the server's answer at install
\* time (addAll accepts only ok responses)
SeedResponse == Response(200, "basic", "old")


\* the requests of the interleaving specification Spec: one per routing outcome
Requests ==
  { Request("GET", RootUrl, FALSE, "navigate", "document"),
    Request("GET", SelfUrl(<<"patients">>), FALSE, "navigate", "document"),
    Request("GET", SelfUrl(<<"favicon.ico">>), FALSE, "cors", "image"),
    Request("GET", SelfUrl(<<"assets", "app.js">>), FALSE, "cors", "script"),
    Request("GET", SelfUrl(<<"api", "data">>), FALSE, "cors", ""),
    Request("GET", SelfUrl(<<"video.webm">>), TRUE, "cors", ""),
    Request("POST", SelfUrl(<<"api", "data">>), FALSE, "cors", "") }

(* ------------------------- pure functions ------------------------------ *)
\* url.pathname.startsWith('/' + seg): the first segment is seg
StartsWithSegment(path, seg) == Len(path) >= 1 /\ path[1] = seg
\* url.pathname.startsWith('/' + seg + '/'): seg is followed by a further segment
StartsWithDir(path, seg) == Len(path) >= 2 /\ path[1] = seg

\* a slip: the '/src/' prefix is forgotten
ExcludedPath_NoSrc(path) ==
  \/ path = <<"sw.js">>
  \/ StartsWithSegment(path, "@vite")
  \/ StartsWithSegment(path, "@react-refresh")

\* sw.js:70-75
ExcludedPath(path) ==
  \/ path = <<"sw.js">>
  \/ StartsWithSegment(path, "@vite")
  \/ StartsWithSegment(path, "@react-refresh")
  \/ StartsWithDir(path, "src")

\* sw.js:99-101
AssetLike(req) ==
  \/ StartsWithDir(req.url.path, "assets")
  \/ req.dest \in {"script", "style", "image", "font"}

\* a slip: the same-origin test is missing
Route_NoOriginTest(dev, req) ==
  IF dev THEN "none"
  ELSE IF req.method # "GET" THEN "none"
  ELSE IF ExcludedPath(req.url.path) THEN "none"
  ELSE IF req.url.scheme = "blob" THEN "none"
  ELSE IF req.range THEN "range"
  ELSE IF req.mode = "navigate" THEN "navigate"
  ELSE IF AssetLike(req) THEN "cacheFirst"
  ELSE "networkFirst"

\* a slip: the asset test comes before the navigation test
Route_AssetBeforeNavigate(dev, req) ==
  IF dev THEN "none"
  ELSE IF req.method # "GET" THEN "none"
  ELSE IF ExcludedPath(req.url.path) THEN "none"
  ELSE IF req.url.scheme = "blob" THEN "none"
  ELSE IF req.range THEN "range"
  ELSE IF req.url.origin # "self" THEN "none"
  ELSE IF AssetLike(req) THEN "cacheFirst"
  ELSE IF req.mode = "navigate" THEN "navigate"
  ELSE "networkFirst"

\* a slip: the blob: test is missing
Route_NoBlobTest(dev, req) ==
  IF dev THEN "none"
  ELSE IF req.method # "GET" THEN "none"
  ELSE IF ExcludedPath(req.url.path) THEN "none"
  ELSE IF req.range THEN "range"
  ELSE IF req.url.origin # "self" THEN "none"
  ELSE IF req.mode = "navigate" THEN "navigate"
  ELSE IF AssetLike(req) THEN "cacheFirst"
  ELSE "networkFirst"

\* a slip: the Range test is missing
Route_NoRangeTest(dev, req) ==
  IF dev THEN "none"
  ELSE IF req.method # "GET" THEN "none"
  ELSE IF ExcludedPath(req.url.path) THEN "none"
  ELSE IF req.url.scheme = "blob" THEN "none"
  ELSE IF req.url.origin # "self" THEN "none"
  ELSE IF req.mode = "navigate" THEN "navigate"
  ELSE IF AssetLike(req) THEN "cacheFirst"
  ELSE "networkFirst"

\* sw.js:58-111: the decision of the fetch listener, in the order of its tests.
\* "none" = the listener returns without calling respondWith.
Route(dev, req) ==
  IF dev THEN "none"
  ELSE IF req.method # "GET" THEN "none"
  ELSE IF ExcludedPath(req.url.path) THEN "none"
  ELSE IF req.url.scheme = "blob" THEN "none"
  ELSE IF req.range THEN "range"
  ELSE IF req.url.origin # "self" THEN "none"
  ELSE IF req.mode = "navigate" THEN "navigate"
  ELSE IF AssetLike(req) THEN "cacheFirst"
  ELSE "networkFirst"

\* a slip: the response type is not tested
isCacheableResponse_StatusOnly(res) == res.status = 200

\* sw.js:153-159
isCacheableResponse(res) ==
  res.status = 200 /\ res.type \in {"basic", "opaqueredirect", "default"}

(* ------------------------------ state ---------------------------------- *)
VARIABLES
  location,   \* self.location of the controller: [hostname, port]
  storage,    \* CacheStorage: sequence of [name, h] in creation order
  objs,       \* Cache objects: handle -> set of entries [key, res]
  sw,         \* per release: life-cycle state, position of its install or
              \* activate handler, the handler's locals (cache, keys, del) and
              \* the skip-waiting flag
  tasks,      \* per fetch event: the request, the listener's decision and the
              \* progress of the promise handed to respondWith
  app         \* the page's "clear service workers and caches" handler: its
              \* position and the cache names it has still to delete

vars == <<location, storage, objs, sw, tasks, app>>

\* a slip: the loopback address is missing from the list
DEV_HOSTS_NoLoopback == {"localhost"}

\* sw.js:7-9
DEV_HOSTS == {"localhost", "127.0.0.1"}

DEV_PORT == "8080"
IS_DEV_SCOPE == location.hostname \in DEV_HOSTS /\ location.port = DEV_PORT

\* where the application is served: the Vite dev server, or production
Locations == {[hostname |-> "localhost", port |-> "8080"],
              [hostname |-> "clinic.example", port |-> ""]}

Entry(key, res) == [key |-> key, res |-> res]

NoReq == Request("GET", RootUrl, FALSE, "cors", "")
IdleTask == [pc |-> "idle", sw |-> 0, req |-> NoReq, strat |-> "none", isNav |-> FALSE,
             cache |-> 0, out |-> NoRes, src |-> "none", put |-> "none",
             opens |-> 0, lookups |-> 0, fetches |-> 0,
             net |-> "none", got |-> NoRes]
NoWorker == [state |-> "none", pc |-> "none", cache |-> 0, keys |-> {}, del |-> {},
             skip |-> FALSE]
\* Index.tsx:174: the handler has not been invoked
AppIdle == [pc |-> "idle", names |-> {}]

(* ------------------------- CacheStorage API ---------------------------- *)
Range(seq) == {seq[i] : i \in 1..Len(seq)}
StorageNames(st) == {c.name : c \in Range(st)}
HandleOf(st, name) == (CHOOSE c \in Range(st) : c.name = name).h

\* handles still reachable: named in storage or held by a running handler
LiveHandles(st, w, ts) ==
  {c.h : c \in Range(st)}
    \cup {w[v].cache : v \in Versions}
    \cup {ts[t].cache : t \in Slots}
\* a Cache object nobody can reach any more is collected
Collect(ob, st, w, ts) ==
  [h \in Handles |-> IF h \in LiveHandles(st, w, ts) THEN ob[h] ELSE {}]
FreeHandles(st, w, ts) == Handles \ LiveHandles(st, w, ts)
NewHandle(st, w, ts) == CHOOSE h \in FreeHandles(st, w, ts) :
                          \A g \in FreeHandles(st, w, ts) : h <= g

\* caches.open(name): the existing Cache object, or a new empty one appended
OpenStorage(st, name, h) ==
  IF name \in StorageNames(st) THEN st ELSE Append(st, [name |-> name, h |-> h])
OpenHandle(st, name, h) ==
  IF name \in StorageNames(st) THEN HandleOf(st, name) ELSE h

\* caches.delete(name)
RECURSIVE DeleteStorage(_, _)
DeleteStorage(st, name) ==
  IF st = << >> THEN << >>
  ELSE IF Head(st).name = name THEN Tail(st)
  ELSE <<Head(st)>> \o DeleteStorage(Tail(st), name)

\* cache.match(key): a stored response for the key, if any
Matches(entries, key) == {e \in entries : e.key = key}
CacheMatch(entries, key) == (CHOOSE e \in Matches(entries, key) : TRUE).res

\* a slip: the write empties the cache before it stores the entry
CachePut_Clear(entries, key, res) == {Entry(key, res)}

\* a slip: the entries for the same key are kept
CachePut_Append(entries, key, res) == entries \cup {Entry(key, res)}

\* cache.put(key, res): entries for the same key are replaced
CachePut(entries, key, res) ==
  {e \in entries : e.key # key} \cup {Entry(key, res)}

\* caches.match(key): the first cache in creation order holding the key
RECURSIVE StorageMatchIdx(_, _, _, _)
StorageMatchIdx(st, ob, key, i) ==
  IF i > Len(st) THEN 0
  ELSE IF Matches(ob[st[i].h], key) # {} THEN i
  ELSE StorageMatchIdx(st, ob, key, i + 1)

\* the model can serve caches.open(name): a Cache object is at hand
CanOpen(name) ==
  name \in StorageNames(storage) \/ FreeHandles(storage, sw, tasks) # {}

(* ------------------------------ Init ----------------------------------- *)
\* Before the first registration: no controller, no handler in flight; cache
\* storage is empty or holds one generation left by an older release.
\* The origin is fresh, or an earlier deployment has left its generations:
\* the static one of the release before, and a runtime one under the current
\* name (the tag is bumped by hand; a redeploy may keep it).
LegacyEntries == {Entry(RootUrl, Response(200, "basic", "stale"))}
KeptEntries   == {Entry(SelfUrl(<<"assets", "app.js">>), Response(200, "basic", "old"))}
LeftStorage == <<[name |-> LegacyCache, h |-> 1],
                 [name |-> RUNTIME_CACHE(CACHE_VERSION), h |-> 2]>>
LeftObjs == [h \in Handles |-> IF h = 1 THEN LegacyEntries
                               ELSE IF h = 2 THEN KeptEntries ELSE {}]
Init ==
  /\ location \in Locations
  /\ \E fresh \in BOOLEAN :
       /\ storage = IF fresh THEN << >> ELSE LeftStorage
       /\ objs = IF fresh THEN [h \in Handles |-> {}] ELSE LeftObjs
  /\ sw = [v \in Versions |-> NoWorker]
  /\ tasks = [t \in Slots |-> IdleTask]
  /\ app = AppIdle

(* ----------------------- install (sw.js:19-33) ------------------------- *)
\* a release is installed once the one before it has been; the browser
\* retries an install that failed
Installable(v) ==
  /\ sw[v].state \in {"none", "failed"}
  /\ \A u \in Versions : u < v => sw[u].state \notin {"none", "installing", "failed"}

\* the install of release v has succeeded: it becomes the waiting controller,
\* and a controller that was still waiting is discarded
Waiting(w, v) ==
  [u \in Versions |-> IF u # v /\ w[u].state = "installed"
                      THEN [w[u] EXCEPT !.state = "redundant"] ELSE w[u]]

\* sw.js:22-26: in dev scope the handler only signals skipWaiting
InstallDev(v) ==
  /\ IS_DEV_SCOPE
  /\ Installable(v)
  /\ sw' = [Waiting(sw, v) EXCEPT ![v] = [@ EXCEPT !.state = "installed", !.skip = TRUE]]
  /\ UNCHANGED <<location, app, storage, objs, tasks>>

\* sw.js:19-27: the install event is dispatched; the handler awaits caches.open
InstallStart(v) ==
  /\ ~IS_DEV_SCOPE
  /\ Installable(v)
  /\ sw' = [sw EXCEPT ![v] = [@ EXCEPT !.state = "installing", !.pc = "open"]]
  /\ UNCHANGED <<location, app, storage, objs, tasks>>

\* sw.js:27: caches.open(STATIC_CACHE) resolves
InstallOpen(v) ==
  /\ sw[v].state = "installing" /\ sw[v].pc = "open"
  /\ CanOpen(STATIC_CACHE(v))
  /\ LET h == NewHandle(storage, sw, tasks) IN
       /\ storage' = OpenStorage(storage, STATIC_CACHE(v), h)
       /\ sw' = [sw EXCEPT ![v] = [@ EXCEPT !.pc = "addAll",
                                    !.cache = OpenHandle(storage, STATIC_CACHE(v), h)]]
  /\ UNCHANGED <<location, app, objs, tasks>>

\* the entries cache.addAll(PRECACHE_URLS) stores when every fetch succeeds
SeedEntries == {Entry(u, SeedResponse) : u \in PRECACHE_URLS}
AddAll(entries) ==
  {e \in entries : e.key \notin PRECACHE_URLS} \cup SeedEntries

\* sw.js:28-30: cache.addAll resolves, then skipWaiting; the handler is done
InstallAddAll(v) ==
  /\ sw[v].state = "installing" /\ sw[v].pc = "addAll"
  /\ LET w == [Waiting(sw, v) EXCEPT ![v] = [@ EXCEPT !.state = "installed", !.pc = "none",
                                               !.cache = 0, !.skip = TRUE]]
         ob == [objs EXCEPT ![sw[v].cache] = AddAll(@)]
     IN /\ sw' = w
        /\ objs' = Collect(ob, storage, w, tasks)
  /\ UNCHANGED <<location, app, storage, tasks>>

\* a slip: the manifest is stored path by path, and the root document is
\* already in the generation when a later path fails
InstallFail_Partial(v) ==
  /\ sw[v].state = "installing"
  /\ LET w == [sw EXCEPT ![v] = [@ EXCEPT !.state = "failed", !.pc = "none",
                                  !.cache = 0]]
         ob == IF sw[v].pc = "addAll"
               THEN [objs EXCEPT ![sw[v].cache] = CachePut(@, RootUrl, SeedResponse)]
               ELSE objs
     IN /\ sw' = w
        /\ objs' = Collect(ob, storage, w, tasks)
  /\ UNCHANGED <<location, app, storage, tasks>>

\* sw.js:27-28: caches.open or cache.addAll rejects (a manifest path cannot be
\* fetched or answers with a non-ok status); nothing is stored, install fails
InstallFail(v) ==
  /\ sw[v].state = "installing"
  /\ LET w == [sw EXCEPT ![v] = [@ EXCEPT !.state = "failed", !.pc = "none",
                                  !.cache = 0]]
     IN /\ sw' = w
        /\ objs' = Collect(objs, storage, w, tasks)
  /\ UNCHANGED <<location, app, storage, tasks>>

(* ---------------------- activate (sw.js:35-50) ------------------------- *)
\* the platform starts activation of an installed controller: at once when
\* skipWaiting was signalled or no controller is active, and never while
\* another one is activating
Activate(v) ==
  /\ sw[v].state = "installed"
  /\ \A u \in Versions : sw[u].state # "activating"
  /\ sw[v].skip \/ \A u \in Versions : sw[u].state # "activated"
  /\ sw' = [u \in Versions |->
              IF u = v THEN [sw[u] EXCEPT !.state = "activating", !.pc = "keys"]
              ELSE IF sw[u].state = "activated"
                   THEN [sw[u] EXCEPT !.state = "redundant"]
                   ELSE sw[u]]
  /\ UNCHANGED <<location, app, storage, objs, tasks>>

\* a slip: || for &&, every name is taken for stale
StaleKeys_Or(keys, v) == {k \in keys : k # STATIC_CACHE(v) \/ k # RUNTIME_CACHE(v)}

\* sw.js:41: the names the activate handler deletes
StaleKeys(keys, v) == {k \in keys : k # STATIC_CACHE(v) /\ k # RUNTIME_CACHE(v)}

\* sw.js:38-45: caches.keys() resolves; one caches.delete is started per stale key
ActKeys(v) ==
  /\ sw[v].state = "activating" /\ sw[v].pc = "keys"
  /\ sw' = [sw EXCEPT ![v] = [@ EXCEPT !.pc = "delete",
                               !.keys = StorageNames(storage),
                               !.del = StaleKeys(StorageNames(storage), v)]]
  /\ UNCHANGED <<location, app, storage, objs, tasks>>

\* sw.js:42: one caches.delete(key) takes effect (also after another deletion
\* failed: Promise.all rejects without cancelling the deletions it started)
ActDelete(v, k) ==
  /\ sw[v].state \in {"activating", "activated"} /\ sw[v].pc \in {"delete", "failed"}
  /\ k \in sw[v].del
  /\ LET st == DeleteStorage(storage, k)
         w  == [sw EXCEPT ![v] = [@ EXCEPT !.del = @ \ {k}]]
     IN /\ storage' = st
        /\ sw' = w
        /\ objs' = Collect(objs, st, w, tasks)
  /\ UNCHANGED <<location, app, tasks>>

\* sw.js:39-45: one caches.delete(key) rejects: Promise.all rejects, the
\* handler throws before clients.claim(); the platform completes the
\* activation all the same
ActDeleteFail(v, k) ==
  /\ sw[v].state = "activating" /\ sw[v].pc = "delete"
  /\ k \in sw[v].del
  /\ sw' = [sw EXCEPT ![v] = [@ EXCEPT !.state = "activated", !.pc = "failed",
                                       !.del = @ \ {k}]]
  /\ UNCHANGED <<location, app, storage, objs, tasks>>

\* a slip: Promise.all is not awaited, clients are claimed with deletions pending
ActClaim_Early(v) ==
  /\ sw[v].state = "activating" /\ sw[v].pc = "delete"
  /\ sw' = [sw EXCEPT ![v] = [@ EXCEPT !.state = "activated", !.pc = "claimed"]]
  /\ UNCHANGED <<location, app, storage, objs, tasks>>

\* sw.js:47: every deletion has resolved; clients.claim(), activation is complete
ActClaim(v) ==
  /\ sw[v].state = "activating" /\ sw[v].pc = "delete"
  /\ sw[v].del = {}
  /\ sw' = [sw EXCEPT ![v] = [@ EXCEPT !.state = "activated", !.pc = "claimed"]]
  /\ UNCHANGED <<location, app, storage, objs, tasks>>

(* ----------------------- message (sw.js:52-56) ------------------------- *)
MessageData == {[has |-> FALSE, type |-> ""], [has |-> TRUE, type |-> "SKIP_WAITING"],
                [has |-> TRUE, type |-> "PING"]}

\* a slip: the type of the message is not compared
OnMessage_AnyType(worker, data) ==
  [worker EXCEPT !.skip = IF data.has THEN TRUE ELSE @]

\* sw.js:53-55: the controller after the listener ran for a message
OnMessage(worker, data) ==
  [worker EXCEPT !.skip = IF data.has /\ data.type = "SKIP_WAITING" THEN TRUE ELSE @]

\* sw.js:52-56: a message is delivered to a running controller
Message(v, data) ==
  /\ sw[v].state \in {"installing", "installed", "activating", "activated"}
  /\ sw' = [sw EXCEPT ![v] = OnMessage(@, data)]
  /\ UNCHANGED <<location, app, storage, objs, tasks>>

(* ------------------------ fetch (sw.js:58-111) ------------------------- *)
FreeSlots == {t \in Slots : tasks[t].pc = "idle"}
FirstFree == CHOOSE t \in FreeSlots : \A u \in FreeSlots : t <= u
\* fetch events delivered so far
nFetch == Cardinality(Slots \ FreeSlots)

\* the record of one event: the listener returned without respondWith
\* (pc "unhandled"), or the promise it handed to respondWith, up to its first await
NewTask(v, req, decision) ==
  [IdleTask EXCEPT
     !.sw = v, !.req = req,
     !.strat = IF decision = "navigate" THEN "networkFirst" ELSE decision,
     !.isNav = (decision = "navigate"),
     !.pc = IF decision = "none" THEN "unhandled"
            ELSE IF decision = "range" THEN "fetch" ELSE "open"]

\* the fetch listener runs for one event of the active controller
FetchEvent(v, req) ==
  /\ sw[v].state = "activated"
  /\ FreeSlots # {}
  /\ tasks' = [tasks EXCEPT ![FirstFree] = NewTask(v, req, Route(IS_DEV_SCOPE, req))]
  /\ UNCHANGED <<location, app, storage, objs, sw>>

(* --------- cacheFirst (sw.js:113-131), networkFirst (133-151) ---------- *)
Finish(task, src, out) ==
  [task EXCEPT !.pc = "done", !.src = src, !.out = out,
               !.cache = IF task.put = "pending" THEN @ ELSE 0]

\* sw.js:114, 134: caches.open(RUNTIME_CACHE) resolves
TaskOpen(t) ==
  /\ tasks[t].pc = "open"
  /\ CanOpen(RUNTIME_CACHE(tasks[t].sw))
  /\ LET name == RUNTIME_CACHE(tasks[t].sw)
         h    == IF name \in StorageNames(storage) THEN 0
                 ELSE NewHandle(storage, sw, tasks)
     IN /\ storage' = OpenStorage(storage, name, h)
        /\ tasks' = [tasks EXCEPT ![t] =
             [@ EXCEPT !.cache = OpenHandle(storage, name, h), !.opens = @ + 1,
                       !.pc = IF tasks[t].strat = "cacheFirst" THEN "match"
                             ELSE "fetch"]]
  /\ UNCHANGED <<location, app, objs, sw>>

\* sw.js:114, 134: caches.open rejects; the await is outside the try block
TaskOpenFail(t) ==
  /\ tasks[t].pc = "open"
  /\ tasks' = [tasks EXCEPT ![t] = Finish([@ EXCEPT !.opens = @ + 1], "cacheerr", NoRes)]
  /\ UNCHANGED <<location, app, storage, objs, sw>>

\* a slip: networkFirst rethrows the network error instead of synthesizing a 503
AfterMatch_Throws(task, entries) ==
  LET looked == [task EXCEPT !.lookups = @ + 1] IN
  IF Matches(entries, task.req.url) # {}
  THEN Finish(looked, "cache", CacheMatch(entries, task.req.url))
  ELSE IF task.strat = "cacheFirst" THEN [looked EXCEPT !.pc = "fetch"]
  ELSE IF task.isNav THEN [looked EXCEPT !.pc = "fallback"]
  ELSE Finish(looked, "neterr", NoRes)

\* a slip: cacheFirst goes to the network although the lookup hit
AfterMatch_Revalidate(task, entries) ==
  LET looked == [task EXCEPT !.lookups = @ + 1] IN
  IF task.strat = "cacheFirst" THEN [looked EXCEPT !.pc = "fetch"]
  ELSE IF Matches(entries, task.req.url) # {}
  THEN Finish(looked, "cache", CacheMatch(entries, task.req.url))
  ELSE IF task.isNav THEN [looked EXCEPT !.pc = "fallback"]
  ELSE Finish(looked, "synth", Offline503)

\* a slip: the isNavigation test is dropped, every network-first miss goes on
\* to the app-shell lookup
AfterMatch_ShellForAll(task, entries) ==
  LET looked == [task EXCEPT !.lookups = @ + 1] IN
  IF Matches(entries, task.req.url) # {}
  THEN Finish(looked, "cache", CacheMatch(entries, task.req.url))
  ELSE IF task.strat = "cacheFirst" THEN [looked EXCEPT !.pc = "fetch"]
  ELSE [looked EXCEPT !.pc = "fallback"]

\* the step after cache.match(req) in the handler of a task
AfterMatch(task, entries) ==
  LET looked == [task EXCEPT !.lookups = @ + 1] IN
  IF Matches(entries, task.req.url) # {}
  THEN Finish(looked, "cache", CacheMatch(entries, task.req.url))
  ELSE IF task.strat = "cacheFirst" THEN [looked EXCEPT !.pc = "fetch"]
  ELSE IF task.isNav THEN [looked EXCEPT !.pc = "fallback"]
  ELSE Finish(looked, "synth", Offline503)

\* sw.js:115-116 (cacheFirst), sw.js:142-149 (networkFirst): cache.match(req) resolves
TaskMatch(t) ==
  /\ tasks[t].pc = "match"
  /\ LET ts == [tasks EXCEPT ![t] = AfterMatch(@, objs[@.cache])] IN
       /\ tasks' = ts
       /\ objs' = Collect(objs, storage, sw, ts)
  /\ UNCHANGED <<location, app, storage, sw>>

\* a slip: the response is stored without asking isCacheableResponse
AfterFetch_AlwaysPut(task, res) ==
  LET fetched == [task EXCEPT !.fetches = @ + 1] IN
  IF task.strat = "range" THEN Finish(fetched, "net", res)
  ELSE Finish([fetched EXCEPT !.put = "pending"], "net", res)

\* a slip: the handler awaits cache.put before it returns the response
AfterFetch_AwaitPut(task, res) ==
  LET fetched == [task EXCEPT !.fetches = @ + 1] IN
  IF task.strat = "range" THEN Finish(fetched, "net", res)
  ELSE IF isCacheableResponse(res)
       THEN [fetched EXCEPT !.put = "pending", !.pc = "put", !.out = res]
       ELSE Finish(fetched, "net", res)

\* a slip: networkFirst treats a response that is not ok like a failed fetch
AfterFetch_OkOnly(task, res) ==
  LET fetched == [task EXCEPT !.fetches = @ + 1] IN
  IF task.strat = "range" THEN Finish(fetched, "net", res)
  ELSE IF task.strat = "networkFirst" /\ res.status # 200 THEN [fetched EXCEPT !.pc = "match"]
  ELSE Finish([fetched EXCEPT !.put = IF isCacheableResponse(res) THEN "pending" ELSE @],
              "net", res)

\* the step after fetch(req) resolved with res
AfterFetch(task, res) ==
  LET fetched == [task EXCEPT !.fetches = @ + 1] IN
  IF task.strat = "range" THEN Finish(fetched, "net", res)
  ELSE Finish([fetched EXCEPT !.put = IF isCacheableResponse(res) THEN "pending" ELSE @],
              "net", res)

\* sw.js:86, 118-122, 136-140: fetch(req) resolves with a response; net and
\* got record what the network did
TaskFetch(t, res) ==
  /\ tasks[t].pc = "fetch"
  /\ LET ts == [tasks EXCEPT ![t] =
                 [AfterFetch(@, res) EXCEPT !.net = "resolved", !.got = res]] IN
       /\ tasks' = ts
       /\ objs' = Collect(objs, storage, sw, ts)
  /\ UNCHANGED <<location, app, storage, sw>>

\* a slip: a failed fetch is retried once before the handler goes on
AfterFetchFail_Retry(task) ==
  LET fetched == [task EXCEPT !.fetches = @ + 1] IN
  IF task.fetches = 0 THEN fetched
  ELSE IF task.strat = "range" THEN Finish(fetched, "neterr", NoRes)
  ELSE IF task.strat = "cacheFirst"
       THEN IF task.req.mode = "navigate" THEN [fetched EXCEPT !.pc = "fallback"]
            ELSE Finish(fetched, "neterr", NoRes)
  ELSE [fetched EXCEPT !.pc = "match"]

\* a slip: cacheFirst answers a failed fetch like networkFirst, with a 503
AfterFetchFail_Synth(task) ==
  LET fetched == [task EXCEPT !.fetches = @ + 1] IN
  IF task.strat = "range" THEN Finish(fetched, "neterr", NoRes)
  ELSE IF task.strat = "cacheFirst"
       THEN IF task.req.mode = "navigate" THEN [fetched EXCEPT !.pc = "fallback"]
            ELSE Finish(fetched, "synth", Offline503)
  ELSE [fetched EXCEPT !.pc = "match"]

\* the step after fetch(req) rejected
AfterFetchFail(task) ==
  LET fetched == [task EXCEPT !.fetches = @ + 1] IN
  IF task.strat = "range" THEN Finish(fetched, "neterr", NoRes)
  ELSE IF task.strat = "cacheFirst"
       THEN IF task.req.mode = "navigate" THEN [fetched EXCEPT !.pc = "fallback"]
            ELSE Finish(fetched, "neterr", NoRes)
  ELSE [fetched EXCEPT !.pc = "match"]

\* sw.js:86, 123-129, 141-142: fetch(req) rejects (network unreachable)
TaskFetchFail(t) ==
  /\ tasks[t].pc = "fetch"
  /\ LET ts == [tasks EXCEPT ![t] = [AfterFetchFail(@) EXCEPT !.net = "rejected"]] IN
       /\ tasks' = ts
       /\ objs' = Collect(objs, storage, sw, ts)
  /\ UNCHANGED <<location, app, storage, sw>>

\* a slip: the app-shell lookup is ignored
AfterFallback_NoShell(task, st, ob) ==
  LET looked == [task EXCEPT !.lookups = @ + 1] IN
  IF task.strat = "cacheFirst" THEN Finish(looked, "neterr", NoRes)
  ELSE Finish(looked, "synth", Offline503)

\* the step after caches.match('/') in the handler of a task
AfterFallback(task, st, ob) ==
  LET looked == [task EXCEPT !.lookups = @ + 1]
      i == StorageMatchIdx(st, ob, RootUrl, 1)
  IN IF i # 0 THEN Finish(looked, "shell", CacheMatch(ob[st[i].h], RootUrl))
     ELSE IF task.strat = "cacheFirst" THEN Finish(looked, "neterr", NoRes)
     ELSE Finish(looked, "synth", Offline503)

\* sw.js:126-129, 145-149: caches.match('/') resolves
TaskFallback(t) ==
  /\ tasks[t].pc = "fallback"
  /\ LET ts == [tasks EXCEPT ![t] = AfterFallback(@, storage, objs)] IN
       /\ tasks' = ts
       /\ objs' = Collect(objs, storage, sw, ts)
  /\ UNCHANGED <<location, app, storage, sw>>

\* a slip: the write is reported complete but the entry is not stored
PutComplete_Lost(t) ==
  /\ tasks[t].put = "pending"
  /\ LET ts == [tasks EXCEPT ![t] = [@ EXCEPT !.put = "done", !.cache = 0]] IN
       /\ tasks' = ts
       /\ objs' = Collect(objs, storage, sw, ts)
  /\ UNCHANGED <<location, app, storage, sw>>

\* a slip: the write goes to the static generation
PutComplete_Static(t) ==
  /\ tasks[t].put = "pending"
  /\ STATIC_CACHE(tasks[t].sw) \in StorageNames(storage)
  /\ LET ts == [tasks EXCEPT ![t] = [@ EXCEPT !.put = "done", !.cache = 0]]
         ob == [objs EXCEPT ![HandleOf(storage, STATIC_CACHE(tasks[t].sw))] =
                  CachePut(@, tasks[t].req.url, tasks[t].out)]
     IN /\ tasks' = ts
        /\ objs' = Collect(ob, storage, sw, ts)
  /\ UNCHANGED <<location, app, storage, sw>>

\* sw.js:120, 138: the cache.put started before the return takes effect
PutComplete(t) ==
  /\ tasks[t].put = "pending"
  /\ LET ts == [tasks EXCEPT ![t] = [@ EXCEPT !.put = "done", !.cache = 0]]
         ob == [objs EXCEPT ![tasks[t].cache] =
                  CachePut(@, tasks[t].req.url, tasks[t].out)]
     IN /\ tasks' = ts
        /\ objs' = Collect(ob, storage, sw, ts)
  /\ UNCHANGED <<location, app, storage, sw>>

\* sw.js:120, 138: the cache.put rejects (quota, storage error); its promise is dropped
PutFail(t) ==
  /\ tasks[t].put = "pending"
  /\ LET ts == [tasks EXCEPT ![t] = [@ EXCEPT !.put = "failed", !.cache = 0]] IN
       /\ tasks' = ts
       /\ objs' = Collect(objs, storage, sw, ts)
  /\ UNCHANGED <<location, app, storage, sw>>

(* --------------------------- specification ----------------------------- *)
\* the listeners of the controller of release v, and the platform's part in
\* its life cycle
Lifecycle(v) ==
  \/ InstallDev(v)
  \/ InstallStart(v)
  \/ InstallOpen(v)
  \/ InstallAddAll(v)
  \/ InstallFail(v)
  \/ Activate(v)
  \/ ActKeys(v)
  \/ \E k \in CacheNames : ActDelete(v, k)
  \/ ActClaim(v)
  \/ \E d \in MessageData : Message(v, d)

\* the handlers in flight, each advancing at its suspension points
Handlers ==
  \/ \E t \in Slots : TaskOpen(t)
  \/ \E t \in Slots : TaskOpenFail(t)
  \/ \E t \in Slots : TaskMatch(t)
  \/ \E t \in Slots, res \in NetResponses : TaskFetch(t, res)
  \/ \E t \in Slots : TaskFetchFail(t)
  \/ \E t \in Slots : TaskFallback(t)
  \/ \E t \in Slots : PutComplete(t)
  \/ \E t \in Slots : PutFail(t)

\* One release (the source's), its handlers interleaved at every suspension point.
Next ==
  \/ Lifecycle(CACHE_VERSION)
  \/ Handlers
  \/ \E req \in Requests : FetchEvent(CACHE_VERSION, req)

Spec == Init /\ [][Next]_vars

\* The same controller and its first fetch event, drawn from every request
\* the page can issue.
RouteNext ==
  \/ Lifecycle(CACHE_VERSION)
  \/ Handlers
  \/ \E req \in AllRequests : nFetch = 0 /\ FetchEvent(CACHE_VERSION, req)

RouteSpec == Init /\ [][RouteNext]_vars

(* ------- the page's clear action (Index.tsx:174-217) and upgrades ------- *)
\* Index.tsx:188-189: every registration is unregistered. The page stays
\* controlled until it is reloaded, so the controller keeps receiving events.
AppUnregister ==
  /\ app.pc \in {"idle", "done"}
  /\ \E v \in Versions : sw[v].state = "activated"
  /\ app' = [pc |-> "keys", names |-> {}]
  /\ UNCHANGED <<location, storage, objs, sw, tasks>>

\* Index.tsx:193-194: caches.keys() resolves; one caches.delete is started per name
AppKeys ==
  /\ app.pc = "keys"
  /\ app' = [pc |-> "delete", names |-> StorageNames(storage)]
  /\ UNCHANGED <<location, storage, objs, sw, tasks>>

\* Index.tsx:194: one caches.delete(name) takes effect
AppDelete(k) ==
  /\ app.pc = "delete"
  /\ k \in app.names
  /\ LET st == DeleteStorage(storage, k) IN
       /\ storage' = st
       /\ objs' = Collect(objs, st, sw, tasks)
  /\ app' = [app EXCEPT !.names = @ \ {k}]
  /\ UNCHANGED <<location, sw, tasks>>

\* Index.tsx:195-197, 200-203: every deletion has resolved, or the clearing
\* failed and was only logged; the handler reports success
AppDone ==
  /\ app.pc \in {"keys", "delete"}
  /\ app.pc = "delete" => app.names = {}
  /\ app' = [pc |-> "done", names |-> {}]
  /\ UNCHANGED <<location, storage, objs, sw, tasks>>

AppClear ==
  \/ AppUnregister
  \/ AppKeys
  \/ \E k \in CacheNames : AppDelete(k)
  \/ AppDone

\* the requests of the upgrade scenario: a navigation and a data request
UpgradeRequests ==
  { Request("GET", SelfUrl(<<"patients">>), FALSE, "navigate", "document"),
    Request("GET", SelfUrl(<<"api", "data">>), FALSE, "cors", "") }

\* Two releases in succession and the page's clear action, and one fetch
\* event, its handler interleaved with the life cycles and the clear action at
\* every suspension point.
UpgradeNext ==
  \/ \E v \in Versions : Lifecycle(v)
  \/ Handlers
  \/ \E v \in Versions, req \in UpgradeRequests : nFetch = 0 /\ FetchEvent(v, req)
  \/ AppClear

UpgradeSpec == Init /\ [][UpgradeNext]_vars

\* every place the controller can be served from: the Vite dev server under
\* both of its names, another local server, production, and a production host
\* on the dev port
AllLocations ==
  Locations \cup {[hostname |-> "127.0.0.1", port |-> "8080"],
                  [hostname |-> "localhost", port |-> "3000"],
                  [hostname |-> "clinic.example", port |-> "8080"]}

ScopeInit ==
  /\ location \in AllLocations
  /\ \E fresh \in BOOLEAN :
       /\ storage = IF fresh THEN << >> ELSE LeftStorage
       /\ objs = IF fresh THEN [h \in Handles |-> {}] ELSE LeftObjs
  /\ sw = [v \in Versions |-> NoWorker]
  /\ tasks = [t \in Slots |-> IdleTask]
  /\ app = AppIdle

\* The controller at any of these places: a first fetch event drawn from every
\* request the page can issue, and further events on the dev server.
ScopeNext ==
  \/ Lifecycle(CACHE_VERSION)
  \/ Handlers
  \/ \E req \in AllRequests : nFetch = 0 /\ FetchEvent(CACHE_VERSION, req)
  \/ \E req \in Requests : IS_DEV_SCOPE /\ FetchEvent(CACHE_VERSION, req)

ScopeSpec == ScopeInit /\ [][ScopeNext]_vars

\* no handler is between its start and its return
Quiet == \A t \in Slots : tasks[t].pc \in {"idle", "unhandled", "done"}

\* the requests of the repeated-fetch scenario
SerialRequests ==
  { Request("GET", SelfUrl(<<"api", "data">>), FALSE, "cors", ""),
    Request("GET", SelfUrl(<<"patients">>), FALSE, "navigate", "document"),
    Request("GET", SelfUrl(<<"assets", "app.js">>), FALSE, "cors", "script") }

\* Requests in succession: a fetch event is delivered only after the handler
\* of the one before has returned; its cache write may still be pending.
SerialNext ==
  \/ Lifecycle(CACHE_VERSION)
  \/ Handlers
  \/ \E req \in SerialRequests : Quiet /\ FetchEvent(CACHE_VERSION, req)

SerialSpec == Init /\ [][SerialNext]_vars

\* the next settlement in the handler of event t: the promise it awaits
\* (caches.open, cache.match, fetch, caches.match) resolves or rejects
Settle(t) ==
  \/ TaskOpen(t)
  \/ TaskOpenFail(t)
  \/ TaskMatch(t)
  \/ \E res \in NetResponses : TaskFetch(t, res)
  \/ TaskFetchFail(t)
  \/ TaskFallback(t)

\* the write started by the handler of event t settles
PutSettle(t) == PutComplete(t) \/ PutFail(t)

\* Requests in succession where every promise eventually settles: the
\* platform resolves or rejects each caches.open, cache.match, fetch,
\* caches.match and cache.put.
LiveSpec ==
  /\ Init /\ [][SerialNext]_vars
  /\ \A t \in Slots : WF_vars(Settle(t)) /\ WF_vars(PutSettle(t))

\* Requests in succession, where the server may also answer with an error
\* status.
ErrorResponses == {Response(500, "basic", "new")}

StatusNext ==
  \/ SerialNext
  \/ \E t \in Slots : \E res \in ErrorResponses : TaskFetch(t, res)

StatusSpec == Init /\ [][StatusNext]_vars

\* The interleaved handlers of Spec where every promise a handler awaits
\* eventually settles; nothing is assumed about the writes they started.
SettleSpec ==
  /\ Init /\ [][Next]_vars
  /\ \A t \in Slots : WF_vars(Settle(t))

(* ------------------------------ claims --------------------------------- *)
Started(t)   == tasks[t].pc # "idle"
Responded(t) == tasks[t].pc \notin {"idle", "unhandled"}
Done(t)      == tasks[t].pc = "done"
\* the handler of event t has opened, read or written no cache
NoCacheUse(t) ==
  tasks[t].opens = 0 /\ tasks[t].lookups = 0 /\ tasks[t].put = "none" /\ tasks[t].cache = 0

AllEntries == UNION {objs[h] : h \in Handles}
EntriesOf(name) ==
  IF name \in StorageNames(storage) THEN objs[HandleOf(storage, name)] ELSE {}

\* C1 as claimed: every cache entry, and every response a fetch strategy has
\* handed to cache.put, has status 200 and type 'basic'.
C1_OnlyBasic200 ==
  /\ \A e \in AllEntries : e.res.status = 200 /\ e.res.type = "basic"
  /\ \A t \in Slots : tasks[t].put # "none" =>
       tasks[t].out.status = 200 /\ tasks[t].out.type = "basic"

\* C1 amended: every cache entry, and every response a fetch strategy has handed
\* to cache.put, has status 200 and type 'basic', 'opaqueredirect' or 'default';
\* a response of another status or type is never written.
C1_CacheabilityGate ==
  /\ \A e \in AllEntries :
       e.res.status = 200 /\ e.res.type \in {"basic", "opaqueredirect", "default"}
  /\ \A t \in Slots : tasks[t].put # "none" =>
       /\ tasks[t].out.status = 200
       /\ tasks[t].out.type \in {"basic", "opaqueredirect", "default"}

\* a strategy has written a response of type 'default' into the runtime generation
C1_Witness ==
  \E t \in Slots :
    /\ tasks[t].put = "done"
    /\ tasks[t].strat \in {"cacheFirst", "networkFirst"}
    /\ tasks[t].out.type = "default"
    /\ Entry(tasks[t].req.url, tasks[t].out) \in EntriesOf(RUNTIME_CACHE(tasks[t].sw))

\* the paths the policy names as never intercepted: the controller's own script
\* /sw.js, and the dev-tooling prefixes /@vite, /@react-refresh and /src/
ToolingPath(path) ==
  /\ Len(path) >= 1
  /\ \/ (Len(path) = 1 /\ path[1] = "sw.js")
     \/ path[1] \in {"@vite", "@react-refresh"}
     \/ (path[1] = "src" /\ Len(path) >= 2)

\* the interception scope of the data model: same-origin GET, not the
\* controller's script, not a dev endpoint, not a blob: URL
OutOfScope(req) ==
  \/ req.method # "GET"
  \/ req.url.origin # "self"
  \/ ToolingPath(req.url.path)
  \/ req.url.scheme = "blob"

\* C2 as claimed: a request outside the scope is never answered (no
\* respondWith) and its event uses no cache, whatever its other attributes.
C2_NeverAnswered ==
  \A t \in Slots : Started(t) /\ OutOfScope(tasks[t].req) =>
    tasks[t].pc = "unhandled" /\ NoCacheUse(t)

\* C2 amended: a request outside the scope never leads to a cache read or write,
\* and it is answered only when it is a cross-origin GET with a Range header
\* (path not excluded, not blob:), by the range bypass; every other request
\* outside the scope is left unhandled.
C2_OutOfScope ==
  \A t \in Slots : Started(t) /\ OutOfScope(tasks[t].req) =>
    /\ NoCacheUse(t)
    /\ tasks[t].pc # "unhandled" =>
         /\ tasks[t].strat = "range"
         /\ tasks[t].req.method = "GET" /\ tasks[t].req.range
         /\ tasks[t].req.url.origin # "self"
         /\ ~ToolingPath(tasks[t].req.url.path) /\ tasks[t].req.url.scheme # "blob"
    /\ (/\ tasks[t].req.method = "GET" /\ tasks[t].req.range
        /\ ~ToolingPath(tasks[t].req.url.path) /\ tasks[t].req.url.scheme # "blob"
        /\ ~IS_DEV_SCOPE) => tasks[t].pc # "unhandled"

\* a cross-origin Range request has been answered from the network
C2_Witness ==
  \E t \in Slots :
    /\ OutOfScope(tasks[t].req) /\ tasks[t].req.url.origin # "self"
    /\ Done(t) /\ tasks[t].strat = "range" /\ tasks[t].src = "net"

RangeGet(req) == req.method = "GET" /\ req.range

\* C3 as claimed (already outside dev scope): every GET request with a Range
\* header is answered with a direct network fetch, and no cache is used for it.
C3_AlwaysBypass ==
  \A t \in Slots : (~IS_DEV_SCOPE /\ Started(t) /\ RangeGet(tasks[t].req)) =>
    /\ tasks[t].strat = "range"
    /\ NoCacheUse(t)
    /\ Done(t) => tasks[t].src \in {"net", "neterr"}

\* C3 amended: no cache is opened, read or written for a GET request with a
\* Range header; it is answered with a direct network fetch unless an earlier
\* rule leaves it unhandled (dev scope, excluded path, blob: URL).
C3_RangeBypass ==
  \A t \in Slots : Started(t) /\ RangeGet(tasks[t].req) =>
    /\ NoCacheUse(t)
    /\ IF \/ IS_DEV_SCOPE
          \/ ToolingPath(tasks[t].req.url.path)
          \/ tasks[t].req.url.scheme = "blob"
       THEN tasks[t].pc = "unhandled"
       ELSE /\ tasks[t].strat = "range"
            /\ Done(t) => tasks[t].src \in {"net", "neterr"} /\ tasks[t].fetches = 1

\* a same-origin Range request has been answered from the network
C3_Witness ==
  \E t \in Slots :
    /\ RangeGet(tasks[t].req) /\ tasks[t].req.url.origin = "self"
    /\ Done(t) /\ tasks[t].strat = "range" /\ tasks[t].src = "net"
    /\ tasks[t].fetches = 1

\* the requests of P1: not GET, or the controller's script, or a dev-tooling path
P1Excluded(req) == req.method # "GET" \/ ToolingPath(req.url.path)

\* C4: an event whose request is not GET or targets /sw.js, /@vite*,
\* /@react-refresh* or /src/* is left unhandled; its delivery changes no cache
\* generation, and nothing ever runs for it afterwards.
C4_Unhandled ==
  \A t \in Slots : Started(t) /\ P1Excluded(tasks[t].req) =>
    tasks[t].pc = "unhandled" /\ NoCacheUse(t)
C4_Frame ==
  \A t \in Slots :
    /\ (tasks[t].pc = "idle" /\ tasks'[t].pc # "idle" /\ P1Excluded(tasks'[t].req))
         => storage' = storage /\ objs' = objs
    /\ (tasks[t].pc = "unhandled" /\ P1Excluded(tasks[t].req)) => tasks'[t] = tasks[t]
C4_ScopeExclusion == []C4_Unhandled /\ [][C4_Frame]_vars

\* outside dev scope, a request for /src/... has been left unhandled
C4_Witness ==
  \E t \in Slots :
    /\ ~IS_DEV_SCOPE
    /\ tasks[t].pc = "unhandled"
    /\ tasks[t].req.method = "GET" /\ StartsWithDir(tasks[t].req.url.path, "src")

\* C5 as claimed: with cache storage working, no promise handed to respondWith
\* rejects, whatever the network outcome and the cache contents.
C5_NeverRejects ==
  \A t \in Slots : Done(t) /\ tasks[t].src # "cacheerr" => tasks[t].src # "neterr"

\* C5 amended: with cache storage working, the promise of a network-first
\* request (navigation or not) resolves to a response -- network, cached, app
\* shell or synthesized 503 -- whatever the network outcome and the cache
\* contents; range-bypass and cache-first promises reject only with the error
\* of their own failed network fetch.
C5_NetworkFirstResolves ==
  \A t \in Slots : Done(t) /\ tasks[t].src # "cacheerr" =>
    /\ tasks[t].strat = "networkFirst" =>
         /\ tasks[t].src \in {"net", "cache", "shell", "synth"}
         /\ tasks[t].out # NoRes
    /\ tasks[t].src = "neterr" =>
         /\ tasks[t].strat \in {"range", "cacheFirst"}
         /\ tasks[t].fetches = 1

\* a network-first request whose fetch failed, with nothing cached for it, has
\* resolved to the synthesized 503
C5_Witness ==
  \E t \in Slots :
    /\ Done(t) /\ tasks[t].strat = "networkFirst"
    /\ tasks[t].fetches = 1 /\ tasks[t].src = "synth" /\ tasks[t].out = Offline503

\* C6 as claimed: a failing store step (caches.open of the runtime generation,
\* or cache.put) never costs the caller the network response: the promise of a
\* cache-first or network-first request does not reject because of it, and a
\* request whose put failed ends with the network response.
C6_StoreFailureHarmless ==
  \A t \in Slots : Done(t) /\ tasks[t].strat \in {"cacheFirst", "networkFirst"} =>
    /\ tasks[t].src # "cacheerr"
    /\ tasks[t].put = "failed" => tasks[t].src = "net" /\ tasks[t].out \in NetResponses

\* C7 as claimed: a cache-first request for an asset that install has seeded
\* into the static generation, made while the network is unreachable, is
\* answered with the seeded response.
Seeded(v, url) == Matches(EntriesOf(STATIC_CACHE(v)), url) # {}
C7_SeededServedOffline ==
  \A t \in Slots :
    (/\ Done(t) /\ tasks[t].strat = "cacheFirst"
     /\ tasks[t].req.url \in PRECACHE_URLS
     /\ sw[tasks[t].sw].state = "activated" /\ Seeded(tasks[t].sw, tasks[t].req.url)
     /\ tasks[t].src \notin {"cacheerr", "net"})
    => tasks[t].src = "cache" /\ tasks[t].out = SeedResponse

\* C8: when the lookup of a cache-first handler finds an entry for the request
\* in the runtime generation, the handler resolves with exactly that entry,
\* has fetched nothing and starts no write, and the step changes no cache.
MatchedResponses(entries, url) == {e.res : e \in Matches(entries, url)}
C8_Step ==
  \A t \in Slots :
    (/\ tasks[t].pc = "match" /\ tasks[t].strat = "cacheFirst"
     /\ tasks'[t] # tasks[t]
     /\ Matches(EntriesOf(RUNTIME_CACHE(tasks[t].sw)), tasks[t].req.url) # {})
    => /\ tasks'[t].pc = "done" /\ tasks'[t].src = "cache"
       /\ tasks'[t].out \in
            MatchedResponses(EntriesOf(RUNTIME_CACHE(tasks[t].sw)), tasks[t].req.url)
       /\ tasks'[t].fetches = 0 /\ tasks'[t].put = "none"
       /\ storage' = storage /\ objs' = objs
C8_Served ==
  \A t \in Slots : (Done(t) /\ tasks[t].strat = "cacheFirst" /\ tasks[t].src = "cache") =>
    tasks[t].fetches = 0 /\ tasks[t].put = "none" /\ tasks[t].lookups = 1
C8_CacheFirstHit == []C8_Served /\ [][C8_Step]_vars

\* a cache-first request for an asset has been served from the runtime generation
C8_Witness ==
  \E t \in Slots :
    /\ Done(t) /\ tasks[t].strat = "cacheFirst" /\ tasks[t].src = "cache"
    /\ AssetLike(tasks[t].req) /\ tasks[t].req.mode # "navigate" /\ ~tasks[t].req.range
    /\ tasks[t].fetches = 0
    /\ tasks[t].out \in
         MatchedResponses(EntriesOf(RUNTIME_CACHE(tasks[t].sw)), tasks[t].req.url)

\* C9: a navigation handler looks the cache up only after its fetch failed; if
\* the runtime generation then holds the exact request, it resolves with that
\* entry; otherwise, if some generation holds '/', it resolves with the stored
\* root document as stored; it never rejects.
RootResponses(st, ob) ==
  UNION {MatchedResponses(ob[st[i].h], RootUrl) : i \in 1..Len(st)}
C9_Step ==
  \A t \in Slots : (tasks[t].isNav /\ tasks'[t] # tasks[t]) =>
    /\ (/\ tasks[t].pc = "match"
        /\ Matches(EntriesOf(RUNTIME_CACHE(tasks[t].sw)), tasks[t].req.url) # {})
       => /\ tasks'[t].pc = "done" /\ tasks'[t].src = "cache"
          /\ tasks'[t].out \in
               MatchedResponses(EntriesOf(RUNTIME_CACHE(tasks[t].sw)), tasks[t].req.url)
    /\ (/\ tasks[t].pc = "match"
        /\ Matches(EntriesOf(RUNTIME_CACHE(tasks[t].sw)), tasks[t].req.url) = {})
       => tasks'[t].pc = "fallback"
    /\ (tasks[t].pc = "fallback" /\ RootResponses(storage, objs) # {})
       => /\ tasks'[t].pc = "done" /\ tasks'[t].src = "shell"
          /\ tasks'[t].out \in RootResponses(storage, objs)
C9_Fallback ==
  \A t \in Slots : tasks[t].isNav =>
    /\ tasks[t].strat = "networkFirst"
    /\ tasks[t].pc \in {"match", "fallback"} => tasks[t].fetches = 1
    /\ Done(t) => tasks[t].src \notin {"neterr"}
    /\ (Done(t) /\ tasks[t].src \in {"cache", "shell"}) =>
         tasks[t].fetches = 1 /\ tasks[t].out # Offline503
C9_NavigationFallback == []C9_Fallback /\ [][C9_Step]_vars

\* an offline navigation to /patients, not cached itself, has been answered with
\* the root document seeded at install, status 200
C9_Witness ==
  \E t \in Slots :
    /\ Done(t) /\ tasks[t].isNav /\ tasks[t].req.url = SelfUrl(<<"patients">>)
    /\ tasks[t].fetches = 1 /\ tasks[t].lookups = 2
    /\ tasks[t].src = "shell" /\ tasks[t].out = SeedResponse

\* C10: while release v activates, a generation named static-v or runtime-v
\* keeps its entries; when its activate handler completes (clients claimed),
\* every name caches.keys() returned at its start is gone from storage unless
\* it is static-v or runtime-v, and those two are still there.
OwnNames(v) == {STATIC_CACHE(v), RUNTIME_CACHE(v)}
C10_Step ==
  \A v \in Versions : sw[v].state = "activating" =>
    /\ \A k \in OwnNames(v) \cap StorageNames(storage) :
         /\ k \in StorageNames(storage')
         /\ objs'[HandleOf(storage', k)] = objs[HandleOf(storage, k)]
    /\ sw[v].pc = "keys" /\ sw'[v].pc # "keys" => sw'[v].keys = StorageNames(storage)
    /\ sw'[v].pc = "claimed" =>
         /\ sw'[v].state = "activated"
         /\ \A k \in sw[v].keys : (k \in StorageNames(storage')) <=> (k \in OwnNames(v))
C10_VersionGC == [][C10_Step]_vars

\* v4 is active: the generation of v3 that caches.keys() listed is gone, the
\* runtime generation found under the current name still holds its entry
C10_Witness ==
  /\ sw[CACHE_VERSION].state = "activated" /\ sw[CACHE_VERSION].pc = "claimed"
  /\ LegacyCache \in sw[CACHE_VERSION].keys
  /\ RUNTIME_CACHE(CACHE_VERSION) \in sw[CACHE_VERSION].keys
  /\ StorageNames(storage) = OwnNames(CACHE_VERSION)
  /\ EntriesOf(RUNTIME_CACHE(CACHE_VERSION)) = KeptEntries
  /\ EntriesOf(STATIC_CACHE(CACHE_VERSION)) = SeedEntries

\* C11: outside dev scope, when the install handler of a release fails, it has
\* not signalled skipWaiting, it has stored nothing (the static generation of
\* the release holds no manifest entry as long as no install of it has
\* succeeded, and holds the whole manifest afterwards), every other controller
\* and every request in flight is left as it was, and the release is activated
\* only from a later install that succeeded.
ManifestKeys(name) == {e.key : e \in EntriesOf(name)} \cap PRECACHE_URLS
C11_Step ==
  \A v \in Versions :
    /\ (sw[v].state = "installing" /\ sw'[v].state = "failed") =>
         /\ sw'[v].skip = sw[v].skip
         /\ storage' = storage
         /\ \A k \in StorageNames(storage) : objs'[HandleOf(storage, k)] = objs[HandleOf(storage, k)]
         /\ \A u \in Versions \ {v} : sw'[u] = sw[u]
         /\ tasks' = tasks
    /\ sw[v].state = "failed" => sw'[v].state \in {"failed", "installing"}
    /\ (sw'[v].state = "activating" /\ sw[v].state # "activating") => sw[v].state = "installed"
    /\ (~IS_DEV_SCOPE /\ sw'[v].state = "installed" /\ sw[v].state # "installed") =>
         /\ sw[v].state = "installing"
         /\ sw'[v].skip
C11_AllOrNothing ==
  /\ \A v \in Versions : (~IS_DEV_SCOPE /\ sw[v].state \in {"none", "installing", "failed"}) =>
       ManifestKeys(STATIC_CACHE(v)) = {}
  /\ \A v \in Versions : ManifestKeys(STATIC_CACHE(v)) \in {{}, PRECACHE_URLS}
C11_InstallFailure == []C11_AllOrNothing /\ [][C11_Step]_vars

\* the install of v5 has failed after its static generation was created: the
\* generation is empty, skipWaiting was not signalled, and v4 is still the
\* active controller, answering a request
C11_Witness ==
  /\ ~IS_DEV_SCOPE
  /\ sw[CACHE_VERSION + 1].state = "failed" /\ ~sw[CACHE_VERSION + 1].skip
  /\ STATIC_CACHE(CACHE_VERSION + 1) \in StorageNames(storage)
  /\ EntriesOf(STATIC_CACHE(CACHE_VERSION + 1)) = {}
  /\ sw[CACHE_VERSION].state = "activated"
  /\ \E t \in Slots : tasks[t].sw = CACHE_VERSION /\ tasks[t].pc = "fetch"

\* C12 as claimed: a controller that is active outside dev scope was installed
\* with the root document cached; from then on, whatever the controllers and
\* the page have done since, a navigation whose network fetch failed is answered
\* with a cached response (the exact entry or the root document), never with
\* the synthesized 503 and never with a failure.
C12_OfflineNavigable ==
  \A t \in Slots :
    (Done(t) /\ tasks[t].isNav /\ tasks[t].src \notin {"net", "cacheerr"}) =>
      /\ tasks[t].src \in {"cache", "shell"}
      /\ tasks[t].out.status = 200

\* C13: when the network answers a cache-first or network-first handler with
\* status 404, or with status 200 and type 'opaque', the handler resolves with
\* exactly that response in the same step, starts no write, and the step
\* changes no generation; such a handler has written nothing at any time, and
\* no generation ever holds such a response.
NotStorable(res) == res.status = 404 \/ (res.status = 200 /\ res.type = "opaque")
C13_Step ==
  \A t \in Slots, res \in NetResponses :
    (/\ tasks[t].pc = "fetch" /\ tasks[t].strat \in {"cacheFirst", "networkFirst"}
     /\ tasks'[t].fetches = tasks[t].fetches + 1
     /\ tasks'[t].out = res /\ NotStorable(res))
    => /\ tasks'[t].pc = "done" /\ tasks'[t].src = "net"
       /\ tasks'[t].put = "none" /\ tasks'[t].cache = 0
       /\ storage' = storage
       /\ \A k \in StorageNames(storage) :
            objs'[HandleOf(storage, k)] = objs[HandleOf(storage, k)]
C13_Untouched ==
  /\ \A t \in Slots :
       (/\ Done(t) /\ tasks[t].strat \in {"cacheFirst", "networkFirst"}
        /\ NotStorable(tasks[t].out))
       => tasks[t].src = "net" /\ tasks[t].out \in NetResponses /\ tasks[t].put = "none"
  /\ \A e \in AllEntries : ~NotStorable(e.res)
C13_PassThrough == []C13_Untouched /\ [][C13_Step]_vars

\* a cache-first handler has returned the network's 404 and a network-first
\* handler the network's opaque 200; neither has written, and the runtime
\* generation holds nothing for their requests
C13_Witness ==
  \E t, u \in Slots :
    /\ Done(t) /\ tasks[t].strat = "cacheFirst" /\ tasks[t].src = "net"
    /\ tasks[t].out = Response(404, "basic", "new") /\ tasks[t].put = "none"
    /\ Done(u) /\ tasks[u].strat = "networkFirst" /\ tasks[u].src = "net"
    /\ tasks[u].out = Response(200, "opaque", "new") /\ tasks[u].put = "none"
    /\ Matches(EntriesOf(RUNTIME_CACHE(CACHE_VERSION)), tasks[t].req.url) = {}
    /\ Matches(EntriesOf(RUNTIME_CACHE(CACHE_VERSION)), tasks[u].req.url) = {}

\* C14: a network-first handler that is not a navigation handler runs for a
\* same-origin GET without Range header that is not asset-like; it looks the
\* cache up only after its fetch failed, and when the runtime generation it
\* opened holds no entry for the request, that step resolves it with the
\* synthesized response of status 503; it never rejects on a failed fetch and
\* never returns the app shell.
Consulted(t) == objs[tasks[t].cache]
PlainNetworkFirst(t) == tasks[t].strat = "networkFirst" /\ ~tasks[t].isNav
C14_Step ==
  \A t \in Slots :
    (/\ PlainNetworkFirst(t) /\ tasks[t].pc = "match" /\ tasks'[t] # tasks[t]
     /\ Matches(Consulted(t), tasks[t].req.url) = {}
     /\ Matches(EntriesOf(RUNTIME_CACHE(tasks[t].sw)), tasks[t].req.url) = {})
    => /\ tasks'[t].pc = "done" /\ tasks'[t].src = "synth"
       /\ tasks'[t].out.status = 503 /\ tasks'[t].out \notin NetResponses
       /\ tasks'[t].lookups = 1 /\ tasks'[t].fetches = 1
C14_Plain ==
  \A t \in Slots : PlainNetworkFirst(t) =>
    /\ tasks[t].req.method = "GET" /\ tasks[t].req.url.origin = "self"
    /\ ~tasks[t].req.range /\ tasks[t].req.mode # "navigate"
    /\ tasks[t].req.dest \notin {"script", "style", "image", "font"}
    /\ ~StartsWithDir(tasks[t].req.url.path, "assets")
    /\ tasks[t].pc = "match" => tasks[t].fetches = 1
    /\ tasks[t].pc # "fallback"
    /\ Done(t) => tasks[t].src \in {"net", "cache", "synth", "cacheerr"}
    /\ (Done(t) /\ tasks[t].src = "synth") => tasks[t].out.status = 503
C14_SynthesizedOffline == []C14_Plain /\ [][C14_Step]_vars

\* GET /api/data, network unreachable, nothing cached for it: answered 503
C14_Witness ==
  \E t \in Slots :
    /\ Done(t) /\ PlainNetworkFirst(t)
    /\ tasks[t].req.url = SelfUrl(<<"api", "data">>)
    /\ tasks[t].fetches = 1 /\ tasks[t].lookups = 1
    /\ tasks[t].src = "synth" /\ tasks[t].out.status = 503
    /\ Matches(EntriesOf(RUNTIME_CACHE(tasks[t].sw)), tasks[t].req.url) = {}

\* C15: a cache-first handler runs only for asset-like requests that are not
\* navigations; when its lookup found nothing and its fetch fails, that step
\* rejects its promise with the network error: no response is produced (no
\* synthesized 503, no app shell), no write is started and no generation is
\* modified.
C15_Step ==
  \A t \in Slots :
    (/\ tasks[t].strat = "cacheFirst" /\ tasks[t].pc = "fetch"
     /\ tasks'[t].fetches = tasks[t].fetches + 1
     /\ tasks'[t].src # "net")
    => /\ tasks'[t].pc = "done" /\ tasks'[t].src = "neterr" /\ tasks'[t].out = NoRes
       /\ tasks'[t].put = "none" /\ tasks'[t].lookups = 1
       /\ storage' = storage
       /\ \A k \in StorageNames(storage) :
            objs'[HandleOf(storage, k)] = objs[HandleOf(storage, k)]
C15_CacheFirst ==
  \A t \in Slots : tasks[t].strat = "cacheFirst" =>
    /\ tasks[t].req.mode # "navigate" /\ ~tasks[t].isNav
    /\ \/ tasks[t].req.dest \in {"script", "style", "image", "font"}
       \/ StartsWithDir(tasks[t].req.url.path, "assets")
    /\ tasks[t].pc # "fallback"
    /\ tasks[t].pc = "fetch" => tasks[t].lookups = 1 /\ tasks[t].fetches = 0
    /\ Done(t) => tasks[t].src \in {"cache", "net", "neterr", "cacheerr"}
    /\ (Done(t) /\ tasks[t].src = "neterr") =>
         /\ tasks[t].out = NoRes /\ tasks[t].put = "none"
         /\ tasks[t].lookups = 1 /\ tasks[t].fetches = 1
C15_TotalMissPropagates == []C15_CacheFirst /\ [][C15_Step]_vars

\* GET /assets/app.js on a fresh origin, network unreachable: the promise has
\* rejected and the runtime generation is still empty
C15_Witness ==
  \E t \in Slots :
    /\ Done(t) /\ tasks[t].strat = "cacheFirst"
    /\ tasks[t].req.url = SelfUrl(<<"assets", "app.js">>)
    /\ tasks[t].lookups = 1 /\ tasks[t].fetches = 1
    /\ tasks[t].src = "neterr" /\ tasks[t].out = NoRes
    /\ EntriesOf(RUNTIME_CACHE(tasks[t].sw)) = {}

\* C16: when the controller is served from localhost:8080 or 127.0.0.1:8080,
\* no step creates a cache generation or adds or replaces an entry, no fetch
\* event is answered (every event is left unhandled, no handler ever runs), and
\* install completes in one step with skipWaiting signalled, without opening
\* a cache or fetching the manifest.
DevServer ==
  location.hostname \in {"localhost", "127.0.0.1"} /\ location.port = "8080"
C16_Step ==
  DevServer =>
    /\ StorageNames(storage') \subseteq StorageNames(storage)
    /\ \A h \in Handles : objs'[h] \subseteq objs[h]
    /\ \A v \in Versions : sw'[v].state # sw[v].state /\ sw[v].state = "none" =>
         sw'[v].state = "installed" /\ sw'[v].skip
C16_Bypassed ==
  DevServer =>
    /\ \A t \in Slots : Started(t) => tasks[t].pc = "unhandled" /\ NoCacheUse(t)
    /\ \A v \in Versions : sw[v].state \notin {"installing", "failed"} /\ sw[v].cache = 0
    /\ \A v \in Versions : STATIC_CACHE(v) \notin StorageNames(storage)
    /\ \A e \in AllEntries : e \in LegacyEntries \cup KeptEntries
C16_DevBypass == []C16_Bypassed /\ [][C16_Step]_vars

\* on 127.0.0.1:8080 the controller has been installed and is active; a
\* navigation and a script request were left unhandled; cache storage was
\* fresh and is still empty
C16_Witness ==
  /\ location = [hostname |-> "127.0.0.1", port |-> "8080"]
  /\ sw[CACHE_VERSION].state = "activated" /\ sw[CACHE_VERSION].skip
  /\ storage = << >>
  /\ \E t, u \in Slots :
       /\ tasks[t].pc = "unhandled" /\ tasks[t].req.mode = "navigate"
       /\ tasks[u].pc = "unhandled" /\ tasks[u].req.dest = "script"

\* C17: the nine rules of the routing policy, in their order; the decision for
\* a request is that of the first rule whose condition holds. Every fetch
\* event is recorded with exactly that decision (unhandled, range bypass,
\* network-first with shell fallback, cache-first, network-first), a navigation
\* to an /assets/ path with network-first with shell fallback; the decision
\* of an event is taken once and never changes.
Rule(cond, decision) == [if |-> cond, then |-> decision]
PolicyRules(dev, req) ==
  << Rule(dev, "none"),
     Rule(req.method # "GET", "none"),
     Rule(ToolingPath(req.url.path), "none"),
     Rule(req.url.scheme = "blob", "none"),
     Rule(req.range, "range"),
     Rule(req.url.origin # "self", "none"),
     Rule(req.mode = "navigate", "navigate"),
     Rule(\/ (Len(req.url.path) >= 2 /\ req.url.path[1] = "assets")
          \/ req.dest \in {"script", "style", "image", "font"}, "cacheFirst"),
     Rule(TRUE, "networkFirst") >>
FirstMatch(rules) ==
  rules[CHOOSE i \in 1..Len(rules) : rules[i].if /\ \A j \in 1..(i - 1) : ~rules[j].if].then
Recorded(t) ==
  IF tasks[t].pc = "unhandled" THEN "none"
  ELSE IF tasks[t].strat = "networkFirst" /\ tasks[t].isNav THEN "navigate"
  ELSE tasks[t].strat
C17_Decision ==
  \A t \in Slots : Started(t) =>
    /\ Recorded(t) = FirstMatch(PolicyRules(DevServer, tasks[t].req))
    /\ tasks[t].isNav => tasks[t].strat = "networkFirst"
    /\ (tasks[t].pc = "unhandled") <=> (tasks[t].strat = "none")
C17_Once ==
  \A t \in Slots : Started(t) =>
    /\ tasks'[t].req = tasks[t].req /\ tasks'[t].strat = tasks[t].strat
    /\ tasks'[t].isNav = tasks[t].isNav /\ tasks'[t].sw = tasks[t].sw
    /\ tasks[t].pc = "unhandled" => tasks'[t] = tasks[t]
C17_FirstMatchWins == []C17_Decision /\ [][C17_Once]_vars

\* a navigation to /assets/app.js is being handled network-first with shell
\* fallback
C17_Witness ==
  \E t \in Slots :
    /\ tasks[t].req.mode = "navigate"
    /\ tasks[t].req.url = SelfUrl(<<"assets", "app.js">>)
    /\ tasks[t].req.method = "GET" /\ ~tasks[t].req.range
    /\ tasks[t].strat = "networkFirst" /\ tasks[t].isNav /\ tasks[t].pc = "open"

\* the handlers of the URL of event t, and those among them whose write took effect
SameUrl(t) == {u \in Slots : Started(u) /\ tasks[u].req.url = tasks[t].req.url
                              /\ tasks[u].strat \in {"cacheFirst", "networkFirst"}}
Writers(t) == {u \in SameUrl(t) : tasks[u].put = "done"}

\* C18 as claimed: when the same URL has been fetched twice in succession
\* through a network-first route, both times with a response of status 200 and
\* type basic, and both writes have taken effect, the runtime generation holds
\* exactly one entry for the key and it is the second response; no cache ever
\* holds two entries for one key.
OneEntryPerKey ==
  \A h \in Handles : \A e, f \in objs[h] : e.key = f.key => e = f
TwiceWritten(t, u) ==
  /\ t < u /\ Done(t) /\ Done(u)
  /\ tasks[t].strat = "networkFirst" /\ tasks[u].strat = "networkFirst"
  /\ tasks[t].req.url = tasks[u].req.url
  /\ tasks[t].src = "net" /\ tasks[u].src = "net"
  /\ tasks[t].out.status = 200 /\ tasks[t].out.type = "basic"
  /\ tasks[u].out.status = 200 /\ tasks[u].out.type = "basic"
  /\ tasks[t].put = "done" /\ tasks[u].put = "done"
C18_SecondWins ==
  /\ OneEntryPerKey
  /\ \A t, u \in Slots : TwiceWritten(t, u) =>
       Matches(EntriesOf(RUNTIME_CACHE(tasks[u].sw)), tasks[u].req.url)
         = {Entry(tasks[u].req.url, tasks[u].out)}

\* C18 amended: no cache ever holds two entries for one key; a write that takes
\* effect leaves exactly its own response under the key; after two fetches of
\* one URL in succession whose writes both took effect, the runtime generation
\* holds exactly one entry for the key, the response of one of the fetches of
\* that URL whose write took effect (of the write that took effect last, which
\* need not be the latest request's, since an earlier write may still be
\* pending when a later one is started).
C18_Step ==
  \A t \in Slots :
    (tasks[t].put = "pending" /\ tasks'[t].put = "done") =>
      /\ Matches(objs'[tasks[t].cache], tasks[t].req.url)
           = {Entry(tasks[t].req.url, tasks[t].out)}
      /\ \A e \in objs[tasks[t].cache] : e.key # tasks[t].req.url => e \in objs'[tasks[t].cache]
C18_OneEntry ==
  /\ OneEntryPerKey
  /\ \A t, u \in Slots : TwiceWritten(t, u) =>
       /\ Cardinality(Matches(EntriesOf(RUNTIME_CACHE(tasks[u].sw)), tasks[u].req.url)) = 1
       /\ Matches(EntriesOf(RUNTIME_CACHE(tasks[u].sw)), tasks[u].req.url)
            \subseteq {Entry(tasks[u].req.url, tasks[w].out) : w \in Writers(u)}
C18_IdempotentOverwrite == []C18_OneEntry /\ [][C18_Step]_vars

\* /api/data was fetched twice in succession with different bodies, both
\* writes took effect, and the single entry is the second response
C18_Witness ==
  \E t, u \in Slots :
    /\ TwiceWritten(t, u)
    /\ tasks[t].out # tasks[u].out
    /\ EntriesOf(RUNTIME_CACHE(tasks[u].sw)) \ KeptEntries
         = {Entry(tasks[u].req.url, tasks[u].out)}

\* C19: for handlers of one cacheable URL running concurrently (cache-first or
\* network-first, interleaved at every fetch, cache read and cache write), a
\* handler that ended with a response ended with its own network response or
\* with an entry that was in the cache (there before, or written by another
\* handler of the URL); and once a write for the URL has taken effect, the
\* runtime generation holds exactly one entry for the key, the network
\* response of one of the handlers whose write took effect.
C19_ConcurrentSafe ==
  \A t \in Slots : (Done(t) /\ tasks[t].strat \in {"cacheFirst", "networkFirst"}) =>
    /\ tasks[t].src = "net" => tasks[t].out \in NetResponses /\ tasks[t].fetches = 1
    /\ tasks[t].src = "cache" =>
         tasks[t].out \in MatchedResponses(KeptEntries, tasks[t].req.url)
                            \cup {tasks[u].out : u \in Writers(t) \ {t}}
    /\ tasks[t].src \in {"net", "cache"} => tasks[t].out # NoRes /\ tasks[t].out # Offline503
    /\ Writers(t) # {} =>
         /\ Cardinality(Matches(EntriesOf(RUNTIME_CACHE(tasks[t].sw)), tasks[t].req.url)) = 1
         /\ Matches(EntriesOf(RUNTIME_CACHE(tasks[t].sw)), tasks[t].req.url)
              \subseteq {Entry(tasks[t].req.url, tasks[u].out) : u \in Writers(t)}
\* two cache-first handlers of /assets/app.js both missed, both fetched (with
\* different bodies) and both wrote: one entry is left, from one of the two
C19_Witness ==
  \E t, u \in Slots :
    /\ t # u /\ Done(t) /\ Done(u)
    /\ tasks[t].req.url = SelfUrl(<<"assets", "app.js">>) /\ tasks[u].req.url = tasks[t].req.url
    /\ tasks[t].strat = "cacheFirst" /\ tasks[u].strat = "cacheFirst"
    /\ tasks[t].src = "net" /\ tasks[u].src = "net" /\ tasks[t].out # tasks[u].out
    /\ tasks[t].put = "done" /\ tasks[u].put = "done"
    /\ EntriesOf(RUNTIME_CACHE(CACHE_VERSION)) = {Entry(tasks[t].req.url, tasks[t].out)}

\* C20: in the step in which fetch resolves with a storable response (status
\* 200, type basic, default or opaqueredirect), a cache-first or network-first
\* handler returns that response with its write started and not yet in effect
\* (no cache changes in the step); a write is pending, complete or failed only
\* for a handler that has already returned the network response, and the
\* outcome of the write changes nothing of what the caller received.
Storable(res) == res.status = 200 /\ res.type \in {"basic", "default", "opaqueredirect"}
C20_Step ==
  \A t \in Slots :
    /\ (/\ tasks[t].pc = "fetch" /\ tasks[t].strat \in {"cacheFirst", "networkFirst"}
        /\ tasks'[t].fetches = tasks[t].fetches + 1
        /\ tasks'[t].src = "net" /\ Storable(tasks'[t].out))
       => /\ tasks'[t].pc = "done" /\ tasks'[t].put = "pending"
          /\ storage' = storage
          /\ \A k \in StorageNames(storage) :
               objs'[HandleOf(storage, k)] = objs[HandleOf(storage, k)]
    /\ (tasks[t].put = "pending" /\ tasks'[t].put # "pending")
       => /\ tasks'[t].put \in {"done", "failed"}
          /\ tasks'[t].pc = tasks[t].pc /\ tasks'[t].out = tasks[t].out
          /\ tasks'[t].src = tasks[t].src
C20_Returned ==
  \A t \in Slots : tasks[t].put # "none" =>
    /\ Done(t) /\ tasks[t].src = "net" /\ tasks[t].out \in NetResponses
    /\ Storable(tasks[t].out)
C20_WriteDoesNotGate == []C20_Returned /\ [][C20_Step]_vars

\* the caller of GET /api/data has the network response while the write is
\* still pending and the runtime generation holds nothing for the request
C20_Witness ==
  \E t \in Slots :
    /\ Done(t) /\ tasks[t].strat = "networkFirst" /\ tasks[t].src = "net"
    /\ tasks[t].req.url = SelfUrl(<<"api", "data">>)
    /\ tasks[t].out = Response(200, "basic", "new")
    /\ tasks[t].put = "pending"
    /\ Matches(EntriesOf(RUNTIME_CACHE(tasks[t].sw)), tasks[t].req.url) = {}

\* C21 as claimed: after a cache-first handler missed and the network answered
\* with status 200, type basic, an entry for the request holding that response
\* eventually appears in the runtime generation.
FreshAsset(t) ==
  /\ Done(t) /\ tasks[t].strat = "cacheFirst" /\ tasks[t].src = "net"
  /\ tasks[t].out.status = 200 /\ tasks[t].out.type = "basic"
Stored(t) ==
  Entry(tasks[t].req.url, tasks[t].out) \in EntriesOf(RUNTIME_CACHE(tasks[t].sw))
C21_EventuallyStored ==
  \A t \in Slots : (FreshAsset(t) /\ tasks[t].put = "pending") ~> Stored(t)

\* C21 amended: a cache-first handler that missed fetches exactly once; when the
\* network answers with status 200, type basic, that step returns the response
\* with its write started; the write eventually settles, and unless it fails,
\* the entry for the request then holds that response in the runtime
\* generation; no step of a fetch handler or of a write changes a static
\* generation.
StaticEntries(st, ob) ==
  [v \in Versions |-> IF STATIC_CACHE(v) \in StorageNames(st)
                      THEN ob[HandleOf(st, STATIC_CACHE(v))] ELSE {}]
C21_Step ==
  /\ \A t \in Slots :
       (/\ tasks[t].strat = "cacheFirst" /\ tasks[t].pc = "fetch"
        /\ tasks'[t].fetches = tasks[t].fetches + 1 /\ tasks'[t].src = "net"
        /\ tasks'[t].out.status = 200 /\ tasks'[t].out.type = "basic")
       => /\ tasks'[t].pc = "done" /\ tasks'[t].out \in NetResponses
          /\ tasks'[t].fetches = 1 /\ tasks'[t].lookups = 1
          /\ tasks'[t].put = "pending"
  /\ \A t \in Slots :
       (tasks[t].put = "pending" /\ tasks'[t].put = "done") => Stored(t)'
  /\ tasks' # tasks =>
       /\ StaticEntries(storage', objs') = StaticEntries(storage, objs)
       /\ \A v \in Versions : (STATIC_CACHE(v) \in StorageNames(storage'))
                                   <=> (STATIC_CACHE(v) \in StorageNames(storage))
C21_Live ==
  \A t \in Slots :
    (FreshAsset(t) /\ tasks[t].put = "pending")
      ~> (tasks[t].put = "failed" \/ (tasks[t].put = "done" /\ Stored(t)))
C21_CacheFirstMiss == [][C21_Step]_vars /\ C21_Live

\* GET /assets/app.js on a fresh origin: fetched once, returned, and stored in
\* the runtime generation; the static generation holds the manifest only
C21_Witness ==
  \E t \in Slots :
    /\ FreshAsset(t) /\ tasks[t].req.url = SelfUrl(<<"assets", "app.js">>)
    /\ tasks[t].req.dest = "script"
    /\ tasks[t].fetches = 1 /\ tasks[t].lookups = 1 /\ tasks[t].put = "done"
    /\ EntriesOf(RUNTIME_CACHE(tasks[t].sw)) = {Entry(tasks[t].req.url, tasks[t].out)}
    /\ EntriesOf(STATIC_CACHE(tasks[t].sw)) = SeedEntries

\* C22: the message listener signals skipWaiting for a message whose data has
\* type 'SKIP_WAITING' and changes nothing else; for a message without data or
\* of another type it changes nothing at all. A step that signals skipWaiting
\* without advancing the life cycle (a message) leaves cache storage, all
\* entries and all handlers as they were. A waiting controller with
\* skipWaiting signalled can start activating although another is active.
SkipMessage(d) == d.has /\ d.type = "SKIP_WAITING"
Running(v) == sw[v].state \in {"installing", "installed", "activating", "activated"}
C22_Listener ==
  \A v \in Versions, d \in MessageData : Running(v) =>
    /\ SkipMessage(d) => OnMessage(sw[v], d) = [sw[v] EXCEPT !.skip = TRUE]
    /\ ~SkipMessage(d) => OnMessage(sw[v], d) = sw[v]
    /\ (sw[v].state = "installed" /\ OnMessage(sw[v], d).skip
        /\ \A u \in Versions : sw[u].state # "activating") => ENABLED Activate(v)
C22_Step ==
  \A v \in Versions :
    (sw'[v].skip /\ ~sw[v].skip /\ sw'[v].state = sw[v].state) =>
      /\ sw' = [sw EXCEPT ![v] = [@ EXCEPT !.skip = TRUE]]
      /\ storage' = storage /\ objs' = objs /\ tasks' = tasks
C22_SkipWaitingMessage == []C22_Listener /\ [][C22_Step]_vars

\* v5 is still installing and skipWaiting is already signalled, which only a
\* SKIP_WAITING message does; v4 is the active controller
C22_Witness ==
  /\ sw[CACHE_VERSION + 1].state = "installing" /\ sw[CACHE_VERSION + 1].skip
  /\ sw[CACHE_VERSION].state = "activated"
  /\ STATIC_CACHE(CACHE_VERSION + 1) \in StorageNames(storage)
  /\ EntriesOf(STATIC_CACHE(CACHE_VERSION + 1)) = {}

\* C23 as claimed: once the newer controller (v5) has finished activating,
\* cache storage holds no generation named otherwise than static-v5 or
\* runtime-v5, in every later state, whatever the handlers of the superseded
\* controller (v4) still in flight do afterwards.
Newer == CACHE_VERSION + 1
C23_StaleStayDeleted ==
  (sw[Newer].state = "activated" /\ sw[Newer].pc = "claimed") =>
    StorageNames(storage) \subseteq OwnNames(Newer)

\* C24 as claimed: outside dev scope, the step in which the install handler
\* signals skipWaiting leaves the static generation of its release holding an
\* entry for every path of the manifest; and when a controller begins
\* activating, the static generation of its release holds the root document.
C24_Step ==
  \A v \in Versions : ~IS_DEV_SCOPE =>
    /\ (sw[v].state = "installing" /\ sw'[v].skip /\ sw'[v].state = "installed") =>
         ManifestKeys(STATIC_CACHE(v))' = PRECACHE_URLS
    /\ (sw[v].state = "installed" /\ sw'[v].state = "activating") =>
         RootUrl \in ManifestKeys(STATIC_CACHE(v))
C24_InstallOrdering == [][C24_Step]_vars

(* ------------------------------------------------------------------------
   Activation with failing deletions: both releases go through their life
   cycle, and any caches.delete started by an activate handler may reject.
   ------------------------------------------------------------------------ *)
ActivateNext ==
  \/ \E v \in Versions : Lifecycle(v)
  \/ \E v \in Versions : \E k \in CacheNames : ActDeleteFail(v, k)

ActivateSpec == Init /\ [][ActivateNext]_vars

\* C25: the controller claims the clients only after every deletion activation
\* started has completed (each completed deletion has removed its generation,
\* so none that activation is about to delete exists at the claim); a failed
\* deletion fails the activation task, which then never calls clients.claim.
C25_Step ==
  \A v \in Versions :
    /\ (sw[v].pc # "claimed" /\ sw'[v].pc = "claimed") =>
         /\ sw[v].pc = "delete" /\ sw[v].del = {}
         /\ \A k \in sw[v].keys : k \notin OwnNames(v) => k \notin sw[v].del
    /\ (sw[v].pc = "delete" /\ sw'[v].pc = "delete") =>
         \A k \in sw[v].del \ sw'[v].del : k \notin StorageNames(storage')
    /\ (sw[v].pc = "delete" /\ sw'[v].pc = "failed") => storage' = storage
    /\ sw[v].pc = "failed" => sw'[v].pc = "failed"

C25_Claimed == \A v \in Versions : sw[v].pc = "claimed" => sw[v].del = {}

C25_ActivationOrdering == []C25_Claimed /\ [][C25_Step]_vars

\* a deletion failed: the worker is activated without having claimed, while a
\* generation the handler set out to delete still exists
C25_Witness ==
  \E v \in Versions :
    /\ sw[v].state = "activated" /\ sw[v].pc = "failed"
    /\ \E k \in sw[v].keys : k \notin OwnNames(v) /\ k \in StorageNames(storage)

\* C26: every entry a fetch strategy wrote into the runtime generation, and
\* every write a strategy has started, is keyed by a same-origin GET request
\* without a Range header, whose path is not /sw.js and does not start with
\* /@vite, /@react-refresh or /src/, and whose URL is not a blob: URL.
WrittenEntries(v) == EntriesOf(RUNTIME_CACHE(v)) \ KeptEntries

C26_KeysInScope ==
  /\ \A t \in Slots : tasks[t].put # "none" =>
       ~OutOfScope(tasks[t].req) /\ ~tasks[t].req.range
  /\ \A v \in Versions : \A e \in WrittenEntries(v) :
       /\ e.key.origin = "self" /\ e.key.scheme # "blob" /\ ~ToolingPath(e.key.path)
       /\ \E t \in Slots :
            /\ tasks[t].put = "done" /\ tasks[t].req.url = e.key
            /\ tasks[t].req.method = "GET" /\ ~tasks[t].req.range

\* a strategy has written an entry into the runtime generation
C26_Witness ==
  \E t \in Slots :
    /\ tasks[t].put = "done"
    /\ \E e \in WrittenEntries(tasks[t].sw) : e.key = tasks[t].req.url

\* C27: while a cache generation exists (the same cache under the same name
\* before and after a step) the set of request keys it holds never shrinks;
\* a key leaves the generation of a name only in a step that removes that
\* generation from cache storage; fetch and message handling remove nothing.
KeysOf(entries) == {e.key : e \in entries}
Generations(st) == {st[i] : i \in DOMAIN st}

C27_Step ==
  /\ \A g \in Generations(storage) \cap Generations(storage') :
       KeysOf(objs[g.h]) \subseteq KeysOf(objs'[g.h])
  /\ \A g \in Generations(storage) :
       (\E k \in KeysOf(objs[g.h]) : k \notin KeysOf(EntriesOf(g.name))') =>
         g \notin Generations(storage')
  /\ tasks' # tasks => Generations(storage) \subseteq Generations(storage')
  /\ (\A v \in Versions : [sw'[v] EXCEPT !.skip = sw[v].skip] = sw[v]) /\ app' = app =>
       Generations(storage) \subseteq Generations(storage')

C27_EntriesOnlyGrow == [][C27_Step]_vars

\* a generation holds an entry left by an earlier deployment next to an
\* entry a strategy has added
C27_Witness ==
  \E t \in Slots :
    /\ tasks[t].put = "done"
    /\ LET keys == KeysOf(EntriesOf(RUNTIME_CACHE(tasks[t].sw))) IN
         /\ tasks[t].req.url \in keys
         /\ KeysOf(KeptEntries) \subseteq keys
         /\ tasks[t].req.url \notin KeysOf(KeptEntries)

\* C28: when every promise a handler awaits settles, each event answered with
\* respondWith reaches its final outcome, after at most one network fetch and
\* at most two cache lookups; whether the write it started ever settles plays
\* no part (the specification assumes nothing about writes).
C28_Bounded ==
  \A t \in Slots :
    /\ tasks[t].fetches <= 1 /\ tasks[t].lookups <= 2 /\ tasks[t].opens <= 1
    /\ Done(t) => tasks[t].src \in {"net", "cache", "shell", "synth", "neterr", "cacheerr"}

C28_Completes ==
  /\ []C28_Bounded
  /\ \A t \in Slots : Responded(t) ~> Done(t)

\* a handler finished after one fetch and two lookups, another finished
\* while its write is still pending
C28_Witness ==
  \E t, u \in Slots :
    /\ Done(t) /\ tasks[t].fetches = 1 /\ tasks[t].lookups = 2
    /\ Done(u) /\ tasks[u].put = "pending"

\* C29: in networkFirst, when the network fetch returns a response of any
\* status, the caller receives that response and no cache was consulted,
\* whatever the caches hold; a cached entry, the app shell or the synthesized
\* 503 is returned only after the network fetch itself failed.
C29_NetworkWins ==
  \A t \in Slots : (Done(t) /\ tasks[t].strat = "networkFirst") =>
    /\ tasks[t].net = "resolved" =>
         tasks[t].src = "net" /\ tasks[t].out = tasks[t].got /\ tasks[t].lookups = 0
    /\ tasks[t].src \in {"cache", "shell", "synth"} => tasks[t].net = "rejected"

\* the caller of a navigation received the server's 500 although the runtime
\* generation holds an entry for the request and the app shell is cached
C29_Witness ==
  \E t \in Slots :
    /\ Done(t) /\ tasks[t].strat = "networkFirst" /\ tasks[t].isNav
    /\ tasks[t].got.status = 500 /\ tasks[t].out.status = 500
    /\ Matches(EntriesOf(RUNTIME_CACHE(tasks[t].sw)), tasks[t].req.url) # {}
    /\ Matches(EntriesOf(STATIC_CACHE(tasks[t].sw)), RootUrl) # {}

\* C30 as claimed: whenever the handler of a controller with names
\* static-V/runtime-V answers a failed navigation with the app-shell fallback,
\* the document it returns is the one stored for '/' in static-V or runtime-V:
\* the first generation of cache storage holding '/' is one of its own.
HoldsRoot(g) == RootUrl \in KeysOf(objs[g.h])

C30_Step ==
  \A t \in Slots :
    (tasks[t].pc = "fallback" /\ tasks'[t].pc = "done" /\ tasks'[t].src = "shell") =>
      \E i \in DOMAIN storage :
        /\ storage[i].name \in OwnNames(tasks[t].sw)
        /\ HoldsRoot(storage[i])
        /\ \A j \in 1..(i - 1) : ~HoldsRoot(storage[j])

C30_OwnVersionShell == [][C30_Step]_vars

====
